---- MODULE Spec2Model ----
(***************************************************************************)
(* Model of the Supabase access facade, src/src/services/                  *)
(* supabase_service.py (class SupabaseService), with the exception         *)
(* hierarchy of src/src/services/exceptions.py.                            *)
(*                                                                         *)
(* One facade instance is modelled.  Every public operation is one action  *)
(* that runs the whole handler: input validation, statement construction   *)
(* through the query builder, the awaited backend call and the except      *)
(* handler.  The backend (the supabase client library) is not part of the  *)
(* repository: its answer to a call is a nondeterministic choice among     *)
(* the shapes the handlers distinguish (raise, falsy response, response    *)
(* without data, response with a list of rows).  The query builder is      *)
(* modelled as the handlers use it: each builder call appends to the       *)
(* statement under construction, execute() sends it.                       *)
(*                                                                         *)
(* Also modelled: map_storage_error (exceptions.py), BaseService.          *)
(* handle_error (base_service.py), the Logger with its daily file          *)
(* (base_logging.py), and make_sync's blocking twins, whose wrapper runs   *)
(* step by step with its worker thread.  Spec is the facade under an       *)
(* arbitrary backend, SpecLog the logged operations over several days,     *)
(* SpecRT the insert/select/delete/select scenario on a backend table      *)
(* that keeps its rows.                                                    *)
(***************************************************************************)
EXTENDS Integers, Sequences, FiniteSets, TLC

VARIABLES
    session,    \* the facade's "session" attribute
    expected,   \* history: session of the last successful login not yet followed by a successful logout
    last,       \* record of the most recent facade call: inputs, statement sent, outcome
    today,      \* the calendar date datetime.now().date() returns
    logger,     \* the facade's Logger: _current_date and the handlers attached
    bridge,     \* the call of a blocking twin in progress: sync_wrapper's position, threads, loops
    rt,         \* the insert/select/delete/select scenario: its inputs, the backend table, the results
    facade,     \* the facade object: constructor arguments, the _supabase client, how __init__ ended
    auth,       \* login and logout coroutines in flight on one facade, and the backend's auth state
    repo        \* the repositories over one facade: the backend tables and the calls in flight

vars == <<session, expected, last, today, logger, bridge, rt, facade, auth, repo>>

----------------------------------------------------------------------------
(* Bounds *)

MaxFilters == 2     \* longest where_filters list
MaxRows == 2        \* most rows in a backend response
MaxSession == 2     \* distinct session tokens the backend hands out
MaxDay == 2         \* calendar dates the clock runs through
MaxWords == 2       \* longest error message, in words
MaxTasks == 2       \* coroutines in flight on one facade

----------------------------------------------------------------------------
(* Session attribute values *)

\* __init__ never assigns self.session: until the first login the attribute is absent
SessionUnset == -1
\* self.session = None
SessionNone == 0
SessionTokens == 1..MaxSession

----------------------------------------------------------------------------
(* Exceptions: src/src/services/exceptions.py *)

NoExc == [type |-> "NoExc"]

\* ApplicationError.__init__(message, original_error)
Exc(type, msg, orig) == [type |-> type, msg |-> msg, orig |-> orig]

\* the class hierarchy: each class and its direct base
BaseOf(type) ==
    CASE type = "ServiceError" -> "ApplicationError"
      [] type = "DatabaseError" -> "ServiceError"
      [] type = "SupabaseError" -> "DatabaseError"
      [] type = "SupabaseConnectionError" -> "SupabaseError"
      [] type = "SupabaseQueryError" -> "SupabaseError"
      [] type = "AuthError" -> "ServiceError"
      [] type = "SupabaseAuthenticationError" -> "AuthError"
      [] type = "SupabaseAuthorizationError" -> "AuthError"
      [] type = "SupabaseStorageError" -> "SupabaseError"
      [] type \in {"SupabaseStorageAuthError", "SupabaseStoragePermissionError",
                   "SupabaseStorageQuotaError", "SupabaseStorageNotFoundError",
                   "SupabaseStorageValidationError"} -> "SupabaseStorageError"
      [] type \in {"base_service.NotFoundError", "base_service.DuplicateError",
                   "base_service.ValidationError", "base_service.DatabaseError",
                   "base_service.AuthenticationError"} -> "base_service.ServiceError"
      [] type \in {"base_db.RecordNotFoundError", "base_db.ValidationError",
                   "base_db.ConnectionError"} -> "base_db.DatabaseError"
      [] OTHER -> "Exception"

RECURSIVE IsInstance(_, _)
IsInstance(type, cls) ==
    IF type = cls THEN TRUE
    ELSE IF type \in {"Exception", "NoExc"} THEN FALSE
    ELSE IsInstance(BaseOf(type), cls)

----------------------------------------------------------------------------
(* Filter predicates and field selectors *)

\* SupabaseService.ALLOWED_OPERATORS
ALLOWED_OPERATORS ==
    {"eq", "neq", "gt", "gte", "lt", "lte", "like", "ilike", "is", "in",
     "contains", "contained_by", "text_search"}

\* the operator strings tried as the second element of a predicate
InputOperators ==
    {"eq", "neq", "lt", "lte", "gt", "gte", "like", "ilike", "is", "in",
     "contains", "contained_by", "range_lt", "range_lte", "range_gt",
     "range_gte", "range_adjacent", "overlaps", "text_search", "bogus"}

\* a predicate is the tuple (column, operator, value); arity is len(tuple)
Pred(col, op, val) == [col |-> col, op |-> op, val |-> val, arity |-> 3]
Preds == {Pred("id", op, 1) : op \in InputOperators}

RECURSIVE SeqsUpTo(_, _)
SeqsUpTo(S, n) ==
    IF n = 0 THEN {<<>>}
    ELSE LET shorter == SeqsUpTo(S, n - 1)
         IN shorter \cup {Append(s, x) : s \in {t \in shorter : Len(t) = n - 1}, x \in S}

\* a list holding an element that is not a 3-tuple
MalformedFilters == <<[col |-> "id", op |-> "eq", val |-> 1, arity |-> 2]>>
FilterLists == SeqsUpTo(Preds, MaxFilters) \cup {MalformedFilters}

\* a field selector: a str (its items are its characters), a dict (its items
\* are its keys) or a list (its items are its elements)
Star == [kind |-> "str", items |-> <<"*">>]
FieldInputs ==
    {Star,
     [kind |-> "str", items |-> <<"i", "d">>],
     [kind |-> "dict", items |-> <<"id", "name">>],
     [kind |-> "list", items |-> <<"id", "name">>]}

\* ",".join(fields): iterates a str by character, a dict by key; the result
\* is kept as the sequence of the joined pieces
Join(fields) == fields.items

TableNames == {"experts", "", " "}

----------------------------------------------------------------------------
(* Statements and backend responses *)

NoStmt == [verb |-> "none", table |-> "", cols |-> <<>>, payload |-> <<>>, filters |-> <<>>]
Stmt(verb, table, cols, payload, filters) ==
    [verb |-> verb, table |-> table, cols |-> cols, payload |-> payload, filters |-> filters]

\* one builder call: primitive(column, value)
Applied(prim, p) == [prim |-> prim, col |-> p.col, val |-> p.val]

\* what awaiting query.execute() does
Unused == [kind |-> "unused", data |-> <<>>]
ExecBehaviours ==
    {[kind |-> "raise", data |-> <<>>],
     [kind |-> "none", data |-> <<>>],
     [kind |-> "nodata", data |-> <<>>]}
    \cup {[kind |-> "data", data |-> [i \in 1..n |-> i]] : n \in 0..MaxRows}

TransportError == Exc("TransportError", <<"backend failure">>, NoExc)
AttributeError(attr) == Exc("AttributeError", <<"no attribute ", attr>>, NoExc)
ValueError(msg) == Exc("ValueError", msg, NoExc)

\* bool(response): None is falsy, a response object is truthy
Truthy(resp) == resp.kind \in {"nodata", "data"}
\* hasattr(response, "data")
HasData(resp) == resp.kind = "data"

----------------------------------------------------------------------------
(* Outcomes of a call *)

NoOut == [kind |-> "none", rtype |-> "none", data |-> <<>>, flag |-> FALSE, exc |-> NoExc]
Raise(e) == [kind |-> "raise", rtype |-> "none", data |-> <<>>, flag |-> FALSE, exc |-> e]
ReturnNone == [kind |-> "return", rtype |-> "None", data |-> <<>>, flag |-> FALSE, exc |-> NoExc]
ReturnList(d) == [kind |-> "return", rtype |-> "list", data |-> d, flag |-> FALSE, exc |-> NoExc]
ReturnRow(r) == [kind |-> "return", rtype |-> "row", data |-> <<r>>, flag |-> FALSE, exc |-> NoExc]
ReturnBool(b) == [kind |-> "return", rtype |-> "bool", data |-> <<>>, flag |-> b, exc |-> NoExc]

\* result of running a handler: execute() calls issued, statement sent,
\* backend behaviour consumed, outcome
ReturnExc(e) == [kind |-> "return", rtype |-> "exception", data |-> <<>>, flag |-> FALSE, exc |-> e]
Result(executed, stmt, backend, out) ==
    [executed |-> executed, stmt |-> stmt, backend |-> backend, out |-> out]
Failed(e) == Result(0, NoStmt, Unused, Raise(e))

----------------------------------------------------------------------------
(* Filter predicate compilation: the if/elif chains of the three handlers *)

Unsupported == "unsupported"

\* select_from_table, the chain under "for filter in where_filters"
SelectPrimitive(op) ==
    CASE op = "eq" -> "eq"
      [] op = "neq" -> "neq"
      [] op = "lt" -> "lt"
      [] op = "lte" -> "lte"
      [] op = "gt" -> "gt"
      [] op = "gte" -> "gte"
      [] op = "like" -> "like"
      [] op = "ilike" -> "ilike"
      [] op = "is" -> "is_"
      [] op = "in" -> "in_"
      [] op = "contains" -> "contains"
      [] op = "contained_by" -> "contained_by"
      [] op = "text_search" -> "text_search"
      [] OTHER -> Unsupported

\* update_table, the same chain written out again
UpdatePrimitive(op) ==
    CASE op = "eq" -> "eq"
      [] op = "neq" -> "neq"
      [] op = "lt" -> "lt"
      [] op = "lte" -> "lte"
      [] op = "gt" -> "gt"
      [] op = "gte" -> "gte"
      [] op = "like" -> "like"
      [] op = "ilike" -> "ilike"
      [] op = "is" -> "is_"
      [] op = "in" -> "in_"
      [] op = "contains" -> "contains"
      [] op = "contained_by" -> "contained_by"
      [] op = "text_search" -> "text_search"
      [] OTHER -> Unsupported

\* delete_from_table: only "eq" is dispatched, everything else falls to the else branch
DeletePrimitive(op) ==
    CASE op = "eq" -> "eq"
      [] OTHER -> Unsupported

Primitive(handler, op) ==
    CASE handler = "select" -> SelectPrimitive(op)
      [] handler = "update" -> UpdatePrimitive(op)
      [] handler = "delete" -> DeletePrimitive(op)

\* "column, operator, value = filter" followed by the chain: the exception
\* this predicate raises, or NoExc
FilterError(handler, p) ==
    IF p.arity # 3 THEN ValueError(<<"not enough values to unpack">>)
    ELSE IF Primitive(handler, p.op) = Unsupported
         THEN ValueError(<<"Unsupported operator: ", p.op>>)
         ELSE NoExc

\* the for loop over where_filters: predicates are applied in list order up
\* to the first one that raises
ApplyFilters(handler, filters) ==
    LET bad == {i \in 1..Len(filters) : FilterError(handler, filters[i]) # NoExc}
        stop == IF bad = {} THEN Len(filters) + 1
                ELSE CHOOSE i \in bad : \A j \in bad : i <= j
    IN [ok |-> bad = {},
        applied |-> [i \in 1..(stop - 1) |->
                        Applied(Primitive(handler, filters[i].op), filters[i])],
        exc |-> IF bad = {} THEN NoExc ELSE FilterError(handler, filters[stop])]

----------------------------------------------------------------------------
(* select_from_table *)

\* except Exception as e: raise SupabaseQueryError(..., original_error=e)
SelectExcept(table_name, e) ==
    Raise(Exc("SupabaseQueryError", <<"Failed to select from table ", table_name>>, e))

\* the filters the statement is built with: the loop sits in the else branch
\* of 'if fields == "*"'
SelectFilters(fields, where_filters) ==
    IF fields = Star
    THEN [ok |-> TRUE, applied |-> <<>>, exc |-> NoExc]
    ELSE ApplyFilters("select", where_filters)

\* the checks ahead of the try block if a list were taken as a selector too
SelectValidation_lists(table_name, fields, where_filters) ==
    IF table_name \in {"", " "}
    THEN ValueError(<<"Table name must be a non-empty string">>)
    ELSE IF fields.kind \notin {"dict", "str", "list"}
    THEN ValueError(<<"Fields must be either a dictionary or string">>)
    ELSE IF where_filters # <<>> /\ \E i \in 1..Len(where_filters) : where_filters[i].arity # 3
    THEN ValueError(<<"Invalid where_filters format">>)
    ELSE NoExc

\* the three checks ahead of the try block
SelectValidation(table_name, fields, where_filters) ==
    IF table_name \in {"", " "}
    THEN ValueError(<<"Table name must be a non-empty string">>)
    ELSE IF fields.kind \notin {"dict", "str"}
    THEN ValueError(<<"Fields must be either a dictionary or string">>)
    ELSE IF where_filters # <<>> /\ \E i \in 1..Len(where_filters) : where_filters[i].arity # 3
    THEN ValueError(<<"Invalid where_filters format">>)
    ELSE NoExc

select_from_table(table_name, fields, where_filters, backend) ==
    LET invalid == SelectValidation(table_name, fields, where_filters)
        built == SelectFilters(fields, where_filters)
        stmt == Stmt("select", table_name, Join(fields), <<>>, built.applied)
    IN IF invalid # NoExc THEN Failed(invalid)
       ELSE IF ~built.ok THEN Result(0, NoStmt, Unused, SelectExcept(table_name, built.exc))
       ELSE IF backend.kind = "raise"
            THEN Result(1, stmt, backend, SelectExcept(table_name, TransportError))
       ELSE IF ~Truthy(backend) \/ ~HasData(backend)
            THEN Result(1, stmt, backend, ReturnNone)
       ELSE Result(1, stmt, backend, ReturnList(backend.data))

----------------------------------------------------------------------------
(* update_table, insert_into_table, delete_from_table *)

\* a dict of column values: a sequence of entries (key, type, text of the
\* value); a bool is written as Python prints it
Entry(key, type, val) == [key |-> key, type |-> type, val |-> val]
Payloads ==
    {<<Entry("full_name", "str", "Ann")>>,
     <<Entry("is_active", "bool", "True")>>,
     <<Entry("is_active", "bool", "False"), Entry("full_name", "str", "True")>>}

\* str.lower() on the texts that occur
Lower(text) ==
    CASE text = "True" -> "true"
      [] text = "False" -> "false"
      [] text = "Ann" -> "ann"
      [] text = "Authentication" -> "authentication"
      [] text = "PERMISSION" -> "permission"
      [] text = "Not" -> "not"
      [] OTHER -> text

\* _serialize_data: bool values become the lowercase text, the rest is copied
\* _serialize_data with str(value) in place of str(value).lower()
serialize_data_cased(data) ==
    [i \in 1..Len(data) |->
        IF data[i].type = "bool"
        THEN Entry(data[i].key, "str", data[i].val)
        ELSE data[i]]

serialize_data(data) ==
    [i \in 1..Len(data) |->
        IF data[i].type = "bool"
        THEN Entry(data[i].key, "str", Lower(data[i].val))
        ELSE data[i]]

TableRequired == Exc("SupabaseError", <<"Table name is required">>, NoExc)

\* except Exception as e: raise SupabaseQueryError("Failed to update table", original_error=e)
UpdateExcept(e) == Raise(Exc("SupabaseQueryError", <<"Failed to update table">>, e))

\* "if response.data and len(response.data) > 0: return response.data[0]"
\* of update_table and insert_into_table; reading .data of a response that
\* has none raises AttributeError inside the try block
FirstRow(backend) ==
    IF ~HasData(backend) THEN Raise(AttributeError("data"))
    ELSE IF Len(backend.data) > 0 THEN ReturnRow(backend.data[1])
    ELSE ReturnNone

update_table(table_name, update_fields, where_filters, backend) ==
    LET built == ApplyFilters("update", where_filters)
        stmt == Stmt("update", table_name, <<>>, serialize_data(update_fields), built.applied)
        first == FirstRow(backend)
    IN IF table_name = "" THEN Failed(TableRequired)
       ELSE IF ~built.ok THEN Result(0, NoStmt, Unused, UpdateExcept(built.exc))
       ELSE IF backend.kind = "raise"
            THEN Result(1, stmt, backend, UpdateExcept(TransportError))
       ELSE IF first.kind = "raise" THEN Result(1, stmt, backend, UpdateExcept(first.exc))
       ELSE Result(1, stmt, backend, first)

\* the handler as it would be if it logged the failure and returned None
InsertExceptSwallow(e) == ReturnNone

\* except Exception as e: raise SupabaseQueryError("Failed to insert into table", original_error=e)
InsertExcept(e) == Raise(Exc("SupabaseQueryError", <<"Failed to insert into table">>, e))

insert_into_table(table_name, insert_fields, upsert, backend) ==
    LET stmt == Stmt(IF upsert THEN "upsert" ELSE "insert", table_name, <<>>, insert_fields, <<>>)
        first == FirstRow(backend)
    IN IF table_name = "" THEN Failed(TableRequired)
       ELSE IF backend.kind = "raise"
            THEN Result(1, stmt, backend, InsertExcept(TransportError))
       ELSE IF first.kind = "raise" THEN Result(1, stmt, backend, InsertExcept(first.exc))
       ELSE Result(1, stmt, backend, first)

\* except Exception as e: raise SupabaseQueryError("Failed to delete from table", original_error=e)
DeleteExcept(e) == Raise(Exc("SupabaseQueryError", <<"Failed to delete from table">>, e))

\* return bool(response and hasattr(response, "data"))
DeleteFlag(backend) == Truthy(backend) /\ HasData(backend)

delete_from_table(table_name, where_filters, backend) ==
    LET built == ApplyFilters("delete", where_filters)
        stmt == Stmt("delete", table_name, <<>>, <<>>, built.applied)
    IN IF table_name = "" THEN Failed(TableRequired)
       ELSE IF ~built.ok THEN Result(0, NoStmt, Unused, DeleteExcept(built.exc))
       ELSE IF backend.kind = "raise"
            THEN Result(1, stmt, backend, DeleteExcept(TransportError))
       ELSE Result(1, stmt, backend, ReturnBool(DeleteFlag(backend)))

----------------------------------------------------------------------------
(* login, logout, refresh_session, set_session *)

Emails == {"", "ann@example.org"}
Passwords == {"", "secret", "wrong"}
ValidCredentials(email, password) == email = "ann@example.org" /\ password = "secret"

\* what awaiting an auth call of the client does: raise for a transport
\* failure, raise because the backend rejects the request, answer None,
\* answer without a user, or answer with a user and a session
AuthApiError == Exc("AuthApiError", <<"Invalid login credentials">>, NoExc)
AuthAnswer(tok) == [kind |-> "auth", data |-> <<tok>>]
SignInBehaviours(email, password) ==
    {[kind |-> "raise", data |-> <<>>],
     [kind |-> "none", data |-> <<>>],
     [kind |-> "nouser", data |-> <<>>]}
    \cup (IF ValidCredentials(email, password)
          THEN {AuthAnswer(tok) : tok \in SessionTokens}
          ELSE {[kind |-> "reject", data |-> <<>>]})
AuthBehaviours ==
    {[kind |-> "raise", data |-> <<>>], [kind |-> "reject", data |-> <<>>]}
    \cup {AuthAnswer(tok) : tok \in SessionTokens}

BackendExc(backend) == IF backend.kind = "reject" THEN AuthApiError ELSE TransportError

\* result of an auth handler: the outcome and the session attribute afterwards
AuthResult(called, backend, out, sess) ==
    [executed |-> called, stmt |-> NoStmt, backend |-> backend, out |-> out, session |-> sess]

\* except Exception as e: raise SupabaseAuthenticationError("Authentication failed", original_error=e)
LoginExcept(e) == Raise(Exc("SupabaseAuthenticationError", <<"Authentication failed">>, e))

\* login as it would be without the assignment to self.session
LoginSessionKeep(sess, backend) == sess

\* self.session = response.session
LoginSession(sess, backend) == backend.data[1]

login(email, password, backend, sess) ==
    IF email = "" \/ password = ""
    THEN AuthResult(0, Unused,
                    Raise(Exc("SupabaseError", <<"Email and password are required">>, NoExc)), sess)
    ELSE IF backend.kind \in {"raise", "reject"}
    THEN AuthResult(1, backend, LoginExcept(BackendExc(backend)), sess)
    ELSE IF backend.kind \in {"none", "nouser"}
    THEN AuthResult(1, backend,
                    LoginExcept(Exc("SupabaseAuthenticationError",
                                    <<"Login failed - invalid credentials">>, NoExc)), sess)
    ELSE AuthResult(1, backend, ReturnBool(TRUE), LoginSession(sess, backend))

\* self.session = None
LogoutSession(sess) == SessionNone

\* logout as it would be if it cleared the session before signing out
logout_clear_first(backend, sess) ==
    IF backend.kind \in {"raise", "reject"}
    THEN AuthResult(1, backend,
                    Raise(Exc("SupabaseAuthenticationError", <<"Failed to logout">>,
                              BackendExc(backend))), LogoutSession(sess))
    ELSE AuthResult(1, backend, ReturnBool(TRUE), LogoutSession(sess))

logout(backend, sess) ==
    IF backend.kind \in {"raise", "reject"}
    THEN AuthResult(1, backend,
                    Raise(Exc("SupabaseAuthenticationError", <<"Failed to logout">>,
                              BackendExc(backend))), sess)
    ELSE AuthResult(1, backend, ReturnBool(TRUE), LogoutSession(sess))

\* the value returned by a handler that hands the backend's answer back
ReturnResponse(backend) ==
    [kind |-> "return", rtype |-> "response", data |-> backend.data, flag |-> FALSE, exc |-> NoExc]

\* refresh_session returns the backend's answer; it has no assignment to self.session
refresh_session(backend, sess) ==
    IF backend.kind \in {"raise", "reject"}
    THEN AuthResult(1, backend,
                    Raise(Exc("SupabaseAuthenticationError", <<"Failed to refresh session">>,
                              BackendExc(backend))), sess)
    ELSE AuthResult(1, backend, ReturnResponse(backend), sess)

\* set_session hands the tokens to the client and returns True; it has no
\* assignment to self.session
set_session(backend, sess) ==
    IF backend.kind \in {"raise", "reject"}
    THEN AuthResult(1, backend,
                    Raise(Exc("SupabaseAuthenticationError", <<"Failed to set session">>,
                              BackendExc(backend))), sess)
    ELSE AuthResult(1, backend, ReturnBool(TRUE), sess)

----------------------------------------------------------------------------
(* get_user, cleanup, create_search_index *)

\* what awaiting auth.get_user() does: raise, answer None, answer an object
\* without a user attribute, answer the user
GetUserBehaviours ==
    {[kind |-> "raise", data |-> <<>>], [kind |-> "none", data |-> <<>>],
     [kind |-> "nouser", data |-> <<>>], [kind |-> "user", data |-> <<1>>]}

\* get_user: "except Exception: return None"
get_user(backend) ==
    IF backend.kind = "user"
    THEN Result(1, NoStmt, backend, ReturnResponse(backend))
    ELSE Result(1, NoStmt, backend, ReturnNone)

\* what awaiting auth.sign_out() or an rpc execute() does
CallBehaviours == {[kind |-> "raise", data |-> <<>>], [kind |-> "ok", data |-> <<>>]}

\* cleanup: the except clause logs "Error during cleanup"; either way the
\* function falls off its end
cleanup(backend) == Result(1, NoStmt, backend, ReturnNone)

\* create_search_index: two rpc calls, each awaited; the except clause logs
\* and returns False.  The second call is made only if the first returned.
create_search_index(first, second) ==
    IF first.kind = "raise" THEN Result(1, NoStmt, first, ReturnBool(FALSE))
    ELSE IF second.kind = "raise" THEN Result(2, NoStmt, second, ReturnBool(FALSE))
    ELSE Result(2, NoStmt, second, ReturnBool(TRUE))

----------------------------------------------------------------------------
(* map_storage_error: src/src/services/exceptions.py *)

\* the words error messages are made of; a message is a sequence of words
Words ==
    {"Authentication", "authentication", "PERMISSION", "quota", "Not", "found",
     "revalidation", "failed"}
Messages == SeqsUpTo(Words, MaxWords)

\* the error a storage call of the client raises
StorageApiError(msg) == Exc("StorageApiError", msg, NoExc)

\* error_message.lower()
LowerMessage(msg) == [i \in 1..Len(msg) |-> Lower(msg[i])]

\* "keyword in text" for a one-word keyword: some word has it as a substring
HasWord(msg, keyword) ==
    \E i \in 1..Len(msg) :
        \/ msg[i] = keyword
        \/ msg[i] = "revalidation" /\ keyword = "validation"

\* "not found" in text: the two words next to each other
HasNotFound(msg) ==
    \E i \in 1..(Len(msg) - 1) : msg[i] = "not" /\ msg[i + 1] = "found"

\* the chain with the test on the message as it is, not on its lowercase
map_storage_error_cased(error) ==
    LET text == error.msg
    IN IF HasWord(text, "authentication")
       THEN Exc("SupabaseStorageAuthError", <<"Storage authentication failed">>, error)
       ELSE IF HasWord(text, "permission")
       THEN Exc("SupabaseStoragePermissionError", <<"Insufficient storage permissions">>, error)
       ELSE IF HasWord(text, "quota")
       THEN Exc("SupabaseStorageQuotaError", <<"Storage quota exceeded">>, error)
       ELSE IF HasNotFound(text)
       THEN Exc("SupabaseStorageNotFoundError", <<"Storage resource not found">>, error)
       ELSE IF HasWord(text, "validation")
       THEN Exc("SupabaseStorageValidationError", <<"Storage validation failed">>, error)
       ELSE Exc("SupabaseStorageError", <<"Storage operation failed">>, error)

map_storage_error(error) ==
    LET text == LowerMessage(error.msg)
    IN IF HasWord(text, "authentication")
       THEN Exc("SupabaseStorageAuthError", <<"Storage authentication failed">>, error)
       ELSE IF HasWord(text, "permission")
       THEN Exc("SupabaseStoragePermissionError", <<"Insufficient storage permissions">>, error)
       ELSE IF HasWord(text, "quota")
       THEN Exc("SupabaseStorageQuotaError", <<"Storage quota exceeded">>, error)
       ELSE IF HasNotFound(text)
       THEN Exc("SupabaseStorageNotFoundError", <<"Storage resource not found">>, error)
       ELSE IF HasWord(text, "validation")
       THEN Exc("SupabaseStorageValidationError", <<"Storage validation failed">>, error)
       ELSE Exc("SupabaseStorageError", <<"Storage operation failed">>, error)

----------------------------------------------------------------------------
(* BaseService.handle_error: src/src/services/base_service.py *)

\* postgrest's APIError as handle_error reads it: its own code, and details
\* that may hold a Postgres error code
NoDetails == [present |-> FALSE, hasCode |-> FALSE, code |-> ""]
Details(hasCode, code) == [present |-> TRUE, hasCode |-> hasCode, code |-> code]
APIError(code, details) ==
    [type |-> "APIError", msg |-> <<"api error">>, orig |-> NoExc,
     code |-> code, details |-> details]

\* BaseService.ERROR_CODES.get(code, DatabaseError)
ERROR_CODES(code) ==
    CASE code = "23505" -> "base_service.DuplicateError"
      [] code = "23503" -> "base_service.ValidationError"
      [] code = "23502" -> "base_service.ValidationError"
      [] code = "22P02" -> "base_service.ValidationError"
      [] code = "42P01" -> "base_service.DatabaseError"
      [] OTHER -> "base_service.DatabaseError"

PgCodes == {"23505", "23503", "23502", "22P02", "42P01", "57014"}

\* the errors handed to handle_error: PostgREST's own not-found error, a
\* Postgres error with its code in the details, API errors without a code in
\* the details, exceptions of base_service's hierarchy, exceptions of the
\* hierarchy of exceptions.py, and a plain exception
HandledErrors ==
    {APIError("PGRST116", NoDetails), APIError("PGRST301", NoDetails),
     APIError("PGRST301", Details(FALSE, ""))}
    \cup {APIError(c, Details(TRUE, c)) : c \in PgCodes}
    \cup {Exc("base_service.NotFoundError", <<"No experts found">>, NoExc),
          Exc("base_service.ValidationError", <<"bad input">>, NoExc),
          Exc("SupabaseQueryError", <<"Failed to update table">>, TransportError),
          ValueError(<<"bad value">>), TransportError}
Operations == {"async_get_by_id", "update"}

handle_error(error, operation) ==
    IF error.type = "APIError" /\ error.code = "PGRST116"
    THEN Exc("base_service.NotFoundError", <<"Resource not found during ", operation>>, NoExc)
    ELSE IF error.type = "APIError" /\ error.details.present /\ error.details.hasCode
    THEN Exc(ERROR_CODES(error.details.code),
             <<"Database error during ", operation>>, error)
    ELSE IF IsInstance(error.type, "base_service.ServiceError")
    THEN error
    ELSE Exc("base_service.DatabaseError", <<"Unexpected error during ", operation>>, error)

----------------------------------------------------------------------------
\* base_service.py as the interpreter takes it: the body of _setup_logger is
\* a comment and nothing else, so compiling the module stops with
\* IndentationError and no BaseService, and no handle_error, comes to exist
BaseServiceLoads == FALSE
IndentationError ==
    Exc("IndentationError",
        <<"expected an indented block after function definition on line 60">>, NoExc)

\* what a caller of handle_error gets
classify(error, operation) ==
    IF BaseServiceLoads
    THEN ReturnExc(handle_error(error, operation))
    ELSE Raise(IndentationError)

----------------------------------------------------------------------------
(* upload_file *)

Buckets == {"", "docs"}
FilePaths == {"", "a.txt"}

\* what awaiting storage.from_(bucket).upload(...) does: raise the client's
\* storage error, raise something else, answer None, answer a mapping
\* without "Key", answer a mapping with "Key"
UploadBehaviours ==
    {[kind |-> "raise_storage", data |-> <<>>],
     [kind |-> "raise", data |-> <<>>],
     [kind |-> "none", data |-> <<>>],
     [kind |-> "nokey", data |-> <<>>],
     [kind |-> "key", data |-> <<>>]}

ReturnKey == [kind |-> "return", rtype |-> "str", data |-> <<>>, flag |-> FALSE, exc |-> NoExc]

\* the except clauses of upload_file tried on an exception raised in the try
\* block: "except StorageApiError" is looked up first, and the module never
\* imports that name, so the lookup itself raises NameError
UploadExcept(e) ==
    Raise(Exc("NameError", <<"name 'StorageApiError' is not defined">>, NoExc))

upload_file(bucket, file_path, has_data, backend) ==
    IF bucket = "" THEN Failed(ValueError(<<"Bucket must be a non-empty string">>))
    ELSE IF ~has_data THEN Failed(ValueError(<<"File data cannot be empty">>))
    ELSE IF file_path = "" THEN Failed(ValueError(<<"File path must be a non-empty string">>))
    ELSE IF backend.kind = "raise_storage"
    THEN Result(1, NoStmt, backend, UploadExcept(StorageApiError(<<"quota">>)))
    ELSE IF backend.kind = "raise"
    THEN Result(1, NoStmt, backend, UploadExcept(TransportError))
    ELSE IF backend.kind \in {"none", "nokey"}
    THEN Result(1, NoStmt, backend,
                UploadExcept(Exc("SupabaseStorageError",
                                 <<"Invalid response from storage upload">>, NoExc)))
    ELSE Result(1, NoStmt, backend, ReturnKey)

----------------------------------------------------------------------------
(* Logger and log_method: src/src/services/base_logging.py *)

\* handlers of the underlying logging.Logger: the console handler, or the
\* FileHandler of the log file named for a date
Console == 0
Days == 1..MaxDay

\* Logger.__init__ on the given date: console handler, then the file handler
NewLogger(date) == [current_date |-> date, handlers |-> <<Console, date>>]

\* the dates of the FileHandlers attached
FileHandlers(lg) == SelectSeq(lg.handlers, LAMBDA h : h # Console)

\* _update_file_handler without the removal loop
update_file_handler_keep(lg) ==
    [lg EXCEPT !.handlers = Append(lg.handlers, lg.current_date)]

\* _update_file_handler: every FileHandler is removed, one for _current_date is added
update_file_handler(lg) ==
    [lg EXCEPT !.handlers =
        Append(SelectSeq(lg.handlers, LAMBDA h : h = Console), lg.current_date)]

\* _check_rotate_log
check_rotate_log(lg, now) ==
    IF now # lg.current_date
    THEN update_file_handler([lg EXCEPT !.current_date = now])
    ELSE lg

\* one record: the method it is about, its text, the outcome it reports,
\* the files it is written to and the date of the log call
LogRecord(method, text, outcome, files, at) ==
    [method |-> method, text |-> text, outcome |-> outcome, files |-> files, at |-> at]
Line(method, text, outcome) == [method |-> method, text |-> text, outcome |-> outcome]

\* the exit record of log_method: log_method_call(method_name, args, kwargs,
\* duration, result) or (..., error=e)
ExitLine(method, out) ==
    Line(method, "args kwargs duration",
         IF out.kind = "raise" THEN "ERROR" ELSE "result")

\* the log calls of one facade call, in order: update_table logs through
\* _serialize_data's wrapper, "Applying filters" and "Unsupported operator"
\* before its own exit record; every other handler logs its exit record only
CallLines(call, r) ==
    IF call.op = "update" /\ call.table # ""
    THEN <<ExitLine("_serialize_data", ReturnNone)>>
         \o (IF call.filters # <<>>
             THEN <<Line("update_table", "Applying filters", "none")>> ELSE <<>>)
         \o (IF r.out.kind = "raise" /\ r.out.exc.orig.type = "ValueError"
                 /\ r.out.exc.orig.msg[1] = "Unsupported operator: "
             THEN <<Line("update_table", "Unsupported operator", "none")>> ELSE <<>>)
         \o <<ExitLine("update_table", r.out)>>
    ELSE IF call.op = "cleanup"
    THEN (IF r.backend.kind = "raise"
          THEN <<Line("cleanup", "Error during cleanup", "none")>> ELSE <<>>)
         \o <<ExitLine("cleanup", r.out)>>
    ELSE IF call.op = "create_search_index"
    THEN (IF r.backend.kind = "raise"
          THEN <<Line("create_search_index", "Failed to create search index", "none")>>
          ELSE <<>>)
    ELSE <<ExitLine(call.op, r.out)>>

\* the records a sequence of log calls writes on one date: the first call
\* rotates if the date changed (and _update_file_handler logs "Log file
\* created"), each record goes to the file handlers then attached
Written(lg, now, lines) ==
    LET after == check_rotate_log(lg, now)
        files == FileHandlers(after)
    IN (IF now # lg.current_date
        THEN <<LogRecord("_update_file_handler", "Log file created", "none", files, now)>>
        ELSE <<>>)
       \o [i \in 1..Len(lines) |->
              LogRecord(lines[i].method, lines[i].text, lines[i].outcome, files, now)]

----------------------------------------------------------------------------
(* make_sync: the blocking twins *)

\* the calling thread when a twin is called: no current event loop, a
\* current loop that is not running, or code running on the loop
Contexts == {"none", "idle", "running"}

\* concurrent.futures.Future as sync_wrapper uses it
NoFuture == [state |-> "none", result |-> NoOut, exception |-> NoExc]
PendingFuture == [state |-> "pending", result |-> NoOut, exception |-> NoExc]

\* the worker's lambda as it would be if it dropped the value of asyncio.run
set_future_none(out) ==
    IF out.kind = "raise"
    THEN [state |-> "finished", result |-> NoOut, exception |-> out.exc]
    ELSE [state |-> "finished", result |-> ReturnNone, exception |-> NoExc]

\* the executor finishes the future with what the submitted callable,
\* lambda: asyncio.run(async_func(*args, **kwargs)), returned or raised
set_future(out) ==
    IF out.kind = "raise"
    THEN [state |-> "finished", result |-> NoOut, exception |-> out.exc]
    ELSE [state |-> "finished", result |-> out, exception |-> NoExc]

\* a bridge that raises its own error with the worker's exception as cause
future_result_wrapped(fut) ==
    IF fut.exception # NoExc
    THEN Raise(Exc("RuntimeError", <<"worker failed">>, fut.exception))
    ELSE fut.result

\* future.result(): the value, or the stored exception raised again
future_result(fut) ==
    IF fut.exception # NoExc THEN Raise(fut.exception) ELSE fut.result

\* leaving the with block without waiting for the worker
shutdown_nowait(worker) == worker

\* leaving "with ThreadPoolExecutor(...)": shutdown(wait=True) joins the worker
shutdown(worker) == IF worker = "none" THEN "none" ELSE "joined"

\* the twins modelled and the operations they await
SyncName(op) == IF op = "login" THEN "login_sync" ELSE "insert_into_table_sync"

\* handler result with the session attribute the handler leaves
WithSession(r, sess) ==
    [executed |-> r.executed, stmt |-> r.stmt, backend |-> r.backend,
     out |-> r.out, session |-> sess]

\* async_func(*args, **kwargs) run to completion: "return await self.login(...)"
\* or "return await self.insert_into_table(...)"
run_async(call, sess) ==
    IF call.op = "login"
    THEN login(call.email, call.password, call.backend, sess)
    ELSE WithSession(insert_into_table(call.table, call.payload, call.upsert, call.backend),
                     sess)

----------------------------------------------------------------------------
(* Construction: SupabaseService.__init__, _init_client, the supabase property *)

PyNone == "<None>"

\* the values tried for url and for api_key
CtorArgs == {PyNone, "", "invalid", "valid"}

\* "not url", "not api_key"
Falsy(arg) == arg \in {PyNone, ""}

\* what ClientOptions(...) followed by AsyncClient(url, api_key, options) does
BuildBehaviours == {"client", "raise"}

\* the exception the client library raises
BuildError == Exc("SupabaseException", <<"Invalid URL">>, NoExc)

\* no object: given are the arguments of the constructor call, builds counts
\* the calls of AsyncClient(...), client says the _supabase attribute exists,
\* out is how __init__ ended
NoFacade ==
    [state |-> "none", given |-> <<PyNone, PyNone>>, url |-> PyNone, api_key |-> PyNone,
     client |-> FALSE, builds |-> 0, out |-> NoOut]

\* _init_client: the try block and its except clause
init_client(self, build) ==
    IF build = "raise"
    THEN [self EXCEPT !.state = "failed", !.builds = @ + 1,
                      !.out = Raise(Exc("SupabaseConnectionError",
                                        <<"Failed to initialize client">>, BuildError))]
    ELSE [self EXCEPT !.state = "ready", !.builds = @ + 1, !.client = TRUE, !.out = ReturnNone]

\* __init__ without its first two lines
SupabaseService_unchecked(url, api_key, build) ==
    init_client([NoFacade EXCEPT !.given = <<url, api_key>>, !.url = url,
                                 !.api_key = api_key], build)

\* SupabaseService(url, api_key)
SupabaseService(url, api_key, build) ==
    IF Falsy(url) \/ Falsy(api_key)
    THEN [NoFacade EXCEPT !.state = "failed", !.given = <<url, api_key>>,
                          !.out = Raise(Exc("SupabaseError",
                                            <<"URL and API key are required">>, NoExc))]
    ELSE init_client([NoFacade EXCEPT !.given = <<url, api_key>>, !.url = url,
                                      !.api_key = api_key], build)

\* the supabase property: the client, or SupabaseConnectionError without one
supabase(self) ==
    IF self.client THEN ReturnNone
    ELSE Raise(Exc("SupabaseConnectionError",
                   <<"Supabase client not properly initialized">>, NoExc))

\* the facade the callers of the other sections hold
ReadyFacade == SupabaseService("valid", "valid", "client")

----------------------------------------------------------------------------
(* The facade instance *)

NoCall ==
    [op |-> "none", table |-> "", fields |-> Star, filters |-> <<>>,
     payload |-> <<>>, upsert |-> FALSE, email |-> "", password |-> "",
     executed |-> 0, stmt |-> NoStmt, backend |-> Unused, out |-> NoOut,
     log |-> <<>>, arg |-> NoExc, operation |-> "", bucket |-> "", path |-> "",
     has_data |-> FALSE]

\* a call record from the handler's result, with the records the call logged
Call(base, r) ==
    [base EXCEPT !.executed = r.executed, !.stmt = r.stmt,
                 !.backend = r.backend, !.out = r.out,
                 !.log = Written(logger, today, CallLines(base, r))]

\* no blocking twin is being called
NoBridge ==
    [pc |-> "idle", ctx |-> "none", pending |-> NoCall, done |-> NoCall,
     future |-> NoFuture, result |-> NoOut, worker |-> "none", ran_on |-> "none",
     workers |-> 0, worker_loops |-> 0, caller_loops |-> 0, caller_runs |-> 0]

\* no scenario is being run
NoRT ==
    [pc |-> "none", db |-> {}, fields |-> Star, payload |-> <<>>, upsert |-> FALSE,
     id |-> 0, inserted |-> NoOut, selected |-> NoOut, deleted |-> NoOut,
     reselected |-> NoOut]

\* every wrapped call logs at least its exit record, so the logger has
\* checked the date by the time the call ends
Logged ==
    /\ logger' = check_rotate_log(logger, today)
    /\ UNCHANGED <<today>>

\* calls with a usable table name take every selector and filter list; the
\* unusable table names are tried with one input each
TableInputs == {"experts"}
BadTableInputs == TableNames \ TableInputs

\* no coroutine of the auth scenario is in flight; backend is the session the
\* backend holds for this client, SessionNone when it is signed out
NoAuth ==
    [pc |-> <<>>, op |-> <<>>, email |-> <<>>, password |-> <<>>, answer |-> <<>>,
     out |-> <<>>, backend |-> SessionNone, order |-> <<>>]

\* no repository is in use
NoRepo == [db |-> <<>>, task |-> <<>>]

Init ==
    /\ session = SessionUnset
    /\ expected = SessionNone
    /\ last = NoCall
    /\ today = 1
    /\ logger = NewLogger(1)
    /\ bridge = NoBridge
    /\ rt = NoRT
    /\ facade = ReadyFacade
    /\ auth = NoAuth
    /\ repo = NoRepo

\* an operation can be called: the caller holds a facade (__init__ returned),
\* its supabase property answers, and no call is in progress
Idle ==
    /\ facade.state = "ready"
    /\ supabase(facade).kind = "return"
    /\ last.op = "none"
    /\ bridge.pc = "idle"

Select ==
    /\ Idle
    /\ \E table_name \in TableNames, fields \in FieldInputs,
          where_filters \in FilterLists, backend \in ExecBehaviours :
        /\ table_name \in BadTableInputs => (fields = Star /\ where_filters = <<>>)
        /\ last' = Call([NoCall EXCEPT !.op = "select", !.table = table_name,
                                       !.fields = fields, !.filters = where_filters],
                        select_from_table(table_name, fields, where_filters, backend))
    /\ Logged
    /\ UNCHANGED <<session, expected, bridge, rt, facade, auth, repo>>

\* the caller takes the result; the facade is ready for the next call
Return ==
    /\ last.op # "none"
    /\ last' = NoCall
    /\ bridge' = NoBridge
    /\ UNCHANGED <<session, expected, today, logger, rt, facade, auth, repo>>

\* midnight passes between two calls
Tick ==
    /\ Idle
    /\ today < MaxDay
    /\ today' = today + 1
    /\ UNCHANGED <<session, expected, last, logger, bridge, rt, facade, auth, repo>>

Update ==
    /\ Idle
    /\ \E table_name \in TableNames, update_fields \in Payloads,
          where_filters \in FilterLists, backend \in ExecBehaviours :
        /\ table_name \in BadTableInputs => where_filters = <<>>
        /\ last' = Call([NoCall EXCEPT !.op = "update", !.table = table_name,
                                       !.payload = update_fields, !.filters = where_filters],
                        update_table(table_name, update_fields, where_filters, backend))
    /\ Logged
    /\ UNCHANGED <<session, expected, bridge, rt, facade, auth, repo>>

Insert ==
    /\ Idle
    /\ \E table_name \in TableNames, insert_fields \in Payloads,
          upsert \in BOOLEAN, backend \in ExecBehaviours :
        last' = Call([NoCall EXCEPT !.op = "insert", !.table = table_name,
                                    !.payload = insert_fields, !.upsert = upsert],
                     insert_into_table(table_name, insert_fields, upsert, backend))
    /\ Logged
    /\ UNCHANGED <<session, expected, bridge, rt, facade, auth, repo>>

Delete ==
    /\ Idle
    /\ \E table_name \in TableNames, where_filters \in FilterLists,
          backend \in ExecBehaviours :
        /\ table_name \in BadTableInputs => where_filters = <<>>
        /\ last' = Call([NoCall EXCEPT !.op = "delete", !.table = table_name,
                                       !.filters = where_filters],
                        delete_from_table(table_name, where_filters, backend))
    /\ Logged
    /\ UNCHANGED <<session, expected, bridge, rt, facade, auth, repo>>

\* an auth call: the session attribute becomes what the handler leaves, the
\* history variable follows the successful logins and logouts
AuthCall(base, r, onSuccess) ==
    /\ last' = Call(base, r)
    /\ session' = r.session
    /\ expected' = IF r.out.kind = "return" THEN onSuccess ELSE expected
    /\ Logged
    /\ UNCHANGED <<bridge, rt, facade, auth, repo>>

Login ==
    /\ Idle
    /\ \E email \in Emails, password \in Passwords :
        \E backend \in SignInBehaviours(email, password) :
            AuthCall([NoCall EXCEPT !.op = "login", !.email = email, !.password = password],
                     login(email, password, backend, session),
                     backend.data[1])

Logout ==
    /\ Idle
    /\ \E backend \in {[kind |-> "raise", data |-> <<>>], [kind |-> "ok", data |-> <<>>]} :
        AuthCall([NoCall EXCEPT !.op = "logout"], logout(backend, session), SessionNone)

RefreshSession ==
    /\ Idle
    /\ \E backend \in AuthBehaviours :
        AuthCall([NoCall EXCEPT !.op = "refresh_session"],
                 refresh_session(backend, session), expected)

SetSession ==
    /\ Idle
    /\ \E backend \in AuthBehaviours :
        AuthCall([NoCall EXCEPT !.op = "set_session"],
                 set_session(backend, session), expected)

GetUser ==
    /\ Idle
    /\ \E backend \in GetUserBehaviours :
        last' = Call([NoCall EXCEPT !.op = "get_user"], get_user(backend))
    /\ Logged
    /\ UNCHANGED <<session, expected, bridge, rt, facade, auth, repo>>

Cleanup ==
    /\ Idle
    /\ \E backend \in CallBehaviours :
        last' = Call([NoCall EXCEPT !.op = "cleanup"], cleanup(backend))
    /\ Logged
    /\ UNCHANGED <<session, expected, bridge, rt, facade, auth, repo>>

\* create_search_index has no log_method wrapper: it logs only when it fails
CreateSearchIndex ==
    /\ Idle
    /\ \E first \in CallBehaviours, second \in CallBehaviours :
        LET r == create_search_index(first, second)
            base == [NoCall EXCEPT !.op = "create_search_index", !.table = "experts"]
        IN /\ last' = [Call(base, r) EXCEPT
                          !.log = IF r.backend.kind = "raise" THEN @ ELSE <<>>]
           /\ logger' = IF r.backend.kind = "raise"
                         THEN check_rotate_log(logger, today) ELSE logger
    /\ UNCHANGED <<session, expected, today, bridge, rt, facade, auth, repo>>

\* sync_wrapper starts: asyncio.get_event_loop(), a new loop set as current
\* when there is none, then the test loop.is_running()
SyncEnter ==
    /\ Idle
    /\ \E ctx \in Contexts :
        \E pending \in
            {[NoCall EXCEPT !.op = "login", !.email = e, !.password = pw, !.backend = b] :
                e \in Emails, pw \in Passwords, b \in AuthBehaviours \cup SignInBehaviours("", "")}
            \cup {[NoCall EXCEPT !.op = "insert", !.table = t, !.payload = f, !.backend = b] :
                t \in {"experts", ""}, f \in Payloads, b \in ExecBehaviours} :
            /\ pending.op = "login" => pending.backend \in SignInBehaviours(pending.email, pending.password)
            /\ bridge' = [NoBridge EXCEPT !.pc = IF ctx = "running" THEN "submit" ELSE "direct",
                                          !.ctx = ctx, !.pending = pending,
                                          !.caller_loops = IF ctx = "none" THEN 1 ELSE 0]
    /\ UNCHANGED <<session, expected, last, today, logger, rt, facade, auth, repo>>

\* the awaited operation runs to completion on whichever thread runs it
Execute(b) ==
    LET r == run_async(bridge.pending, session)
    IN /\ session' = r.session
       /\ expected' = IF bridge.pending.op = "login" /\ r.out.kind = "return"
                       THEN bridge.pending.backend.data[1] ELSE expected
       /\ Logged
       /\ bridge' = [b EXCEPT !.done = Call(bridge.pending, r)]
       /\ UNCHANGED <<last, rt, facade, auth, repo>>

\* loop.run_until_complete(async_func(*args, **kwargs)) on the calling thread
RunDirect ==
    /\ bridge.pc = "direct"
    /\ Execute([bridge EXCEPT !.pc = "return", !.ran_on = "caller",
                              !.caller_runs = @ + 1,
                              !.result = run_async(bridge.pending, session).out])

\* executor.submit(...): the pool starts its worker thread; the calling
\* thread goes on to future.result() and blocks
Submit ==
    /\ bridge.pc = "submit"
    /\ bridge' = [bridge EXCEPT !.pc = "blocked", !.future = PendingFuture,
                                !.worker = "running", !.workers = @ + 1]
    /\ UNCHANGED <<session, expected, last, today, logger, rt, facade, auth, repo>>

\* the worker: asyncio.run creates a loop, runs the operation on it, closes
\* it; the executor finishes the future
WorkerRun ==
    /\ bridge.worker = "running"
    /\ bridge.future.state = "pending"
    /\ Execute([bridge EXCEPT !.worker = "waiting", !.ran_on = "worker",
                              !.worker_loops = @ + 1,
                              !.future = set_future(run_async(bridge.pending, session).out)])

\* future.result() returns or raises on the calling thread
FutureResult ==
    /\ bridge.pc = "blocked"
    /\ bridge.future.state = "finished"
    /\ bridge' = [bridge EXCEPT !.pc = "shutdown", !.result = future_result(bridge.future)]
    /\ UNCHANGED <<session, expected, last, today, logger, rt, facade, auth, repo>>

\* the with block is left, by the return or by the exception
Shutdown ==
    /\ bridge.pc = "shutdown"
    /\ bridge' = [bridge EXCEPT !.pc = "return", !.worker = shutdown(bridge.worker)]
    /\ UNCHANGED <<session, expected, last, today, logger, rt, facade, auth, repo>>

\* sync_wrapper returns or raises to its caller
SyncReturn ==
    /\ bridge.pc = "return"
    /\ last' = [bridge.done EXCEPT !.op = SyncName(bridge.pending.op), !.out = bridge.result]
    /\ bridge' = [bridge EXCEPT !.pc = "returned"]
    /\ UNCHANGED <<session, expected, today, logger, rt, facade, auth, repo>>

UploadFile ==
    /\ Idle
    /\ \E bucket \in Buckets, file_path \in FilePaths, has_data \in BOOLEAN,
          backend \in UploadBehaviours :
        last' = Call([NoCall EXCEPT !.op = "upload_file", !.bucket = bucket,
                                    !.path = file_path, !.has_data = has_data],
                     upload_file(bucket, file_path, has_data, backend))
    /\ Logged
    /\ UNCHANGED <<session, expected, bridge, rt, facade, auth, repo>>

\* map_storage_error and handle_error are plain functions: they log nothing
MapStorageError ==
    /\ Idle
    /\ \E msg \in Messages :
        last' = [NoCall EXCEPT !.op = "map_storage_error", !.arg = StorageApiError(msg),
                               !.out = ReturnExc(map_storage_error(StorageApiError(msg)))]
    /\ UNCHANGED <<session, expected, today, logger, bridge, rt, facade, auth, repo>>

HandleError ==
    /\ Idle
    /\ \E error \in HandledErrors, operation \in Operations :
        last' = [NoCall EXCEPT !.op = "handle_error", !.arg = error,
                               !.operation = operation,
                               !.out = classify(error, operation)]
    /\ UNCHANGED <<session, expected, today, logger, bridge, rt, facade, auth, repo>>

Next ==
    \/ Select
    \/ Update
    \/ Insert
    \/ Delete
    \/ Login
    \/ Logout
    \/ RefreshSession
    \/ SetSession
    \/ GetUser
    \/ Cleanup
    \/ CreateSearchIndex
    \/ UploadFile
    \/ MapStorageError
    \/ HandleError
    \/ SyncEnter
    \/ RunDirect
    \/ Submit
    \/ WorkerRun
    \/ FutureResult
    \/ Shutdown
    \/ SyncReturn
    \/ Return

Spec == Init /\ [][Next]_vars

\* the facade over several days: calls of logged operations with midnights
\* between them
NextLog ==
    \/ Tick
    \/ Insert
    \/ Login
    \/ Logout
    \/ UploadFile
    \/ Return

SpecLog == Init /\ [][NextLog]_vars

----------------------------------------------------------------------------
(* A process that constructs its facade and then calls it *)

\* the Logger before Logger.__init__ has run
NoLogger == [current_date |-> 0, handlers |-> <<>>]

InitNew ==
    /\ session = SessionUnset
    /\ expected = SessionNone
    /\ last = NoCall
    /\ today = 1
    /\ logger = NoLogger
    /\ bridge = NoBridge
    /\ rt = NoRT
    /\ facade = NoFacade
    /\ auth = NoAuth
    /\ repo = NoRepo

\* SupabaseService(url, api_key): past the argument check __init__ builds the
\* Logger and _init_client logs its exit record
Construct ==
    /\ facade.state = "none"
    /\ \E url \in CtorArgs, api_key \in CtorArgs, build \in BuildBehaviours :
        /\ facade' = SupabaseService(url, api_key, build)
        /\ logger' = IF Falsy(url) \/ Falsy(api_key) THEN logger
                      ELSE check_rotate_log(NewLogger(today), today)
    /\ UNCHANGED <<session, expected, last, today, bridge, rt, auth, repo>>

NextNew ==
    \/ Construct
    \/ Insert
    \/ Login
    \/ Logout
    \/ GetUser
    \/ Return

SpecNew == InitNew /\ [][NextNew]_vars

----------------------------------------------------------------------------
(* login and logout coroutines running concurrently on one facade.  A      *)
(* coroutine runs up to its await, the backend serves the request, and    *)
(* the event loop resumes the coroutine with the answer; steps of other   *)
(* coroutines can come between.                                           *)

Tasks == 1..MaxTasks

SignOutBehaviours == {[kind |-> "raise", data |-> <<>>], [kind |-> "ok", data |-> <<>>]}

InitAuth ==
    /\ session = SessionUnset
    /\ expected = SessionNone
    /\ last = NoCall
    /\ today = 1
    /\ logger = NewLogger(1)
    /\ bridge = NoBridge
    /\ rt = NoRT
    /\ facade = ReadyFacade
    /\ repo = NoRepo
    /\ auth = [NoAuth EXCEPT !.pc = [t \in Tasks |-> "new"],
                             !.op = [t \in Tasks |-> "none"],
                             !.email = [t \in Tasks |-> ""],
                             !.password = [t \in Tasks |-> ""],
                             !.answer = [t \in Tasks |-> Unused],
                             !.out = [t \in Tasks |-> NoOut]]

\* login(email, password) is called: without an email or a password it
\* raises at once, otherwise it sends sign_in_with_password and suspends
LoginStart(t) ==
    /\ auth.pc[t] = "new"
    /\ \E email \in Emails, password \in Passwords :
        LET r == login(email, password, [kind |-> "raise", data |-> <<>>], session)
            sent == r.executed = 1
        IN /\ auth' = [auth EXCEPT !.op[t] = "login", !.email[t] = email,
                                   !.password[t] = password,
                                   !.pc[t] = IF sent THEN "sent" ELSE "done",
                                   !.out[t] = IF sent THEN NoOut ELSE r.out,
                                   !.order = IF sent THEN @ ELSE Append(@, t)]
           /\ logger' = IF sent THEN logger ELSE check_rotate_log(logger, today)
    /\ UNCHANGED <<session, expected, last, today, bridge, rt, facade, repo>>

\* logout() is called: it sends sign_out and suspends
LogoutStart(t) ==
    /\ auth.pc[t] = "new"
    /\ auth' = [auth EXCEPT !.op[t] = "logout", !.pc[t] = "sent"]
    /\ UNCHANGED <<session, expected, last, today, logger, bridge, rt, facade, repo>>

\* the backend serves a request: a sign-in it accepts leaves it signed in
\* with the session it answers, a sign-out it accepts leaves it signed out,
\* a request that fails or is rejected leaves it as it was
Serve(t) ==
    /\ auth.pc[t] = "sent"
    /\ \E answer \in IF auth.op[t] = "login"
                      THEN SignInBehaviours(auth.email[t], auth.password[t])
                      ELSE SignOutBehaviours :
        auth' = [auth EXCEPT !.pc[t] = "answered", !.answer[t] = answer,
                             !.backend = IF answer.kind = "auth" THEN answer.data[1]
                                         ELSE IF answer.kind = "ok" THEN SessionNone
                                         ELSE @]
    /\ UNCHANGED <<session, expected, last, today, logger, bridge, rt, facade, repo>>

\* the event loop resumes the coroutine: the rest of login or logout runs
\* with the answer, and log_method writes the exit record
Resume(t) ==
    /\ auth.pc[t] = "answered"
    /\ LET r == IF auth.op[t] = "login"
                THEN login(auth.email[t], auth.password[t], auth.answer[t], session)
                ELSE logout(auth.answer[t], session)
       IN /\ session' = r.session
          /\ auth' = [auth EXCEPT !.pc[t] = "done", !.out[t] = r.out,
                                  !.order = Append(@, t)]
    /\ Logged
    /\ UNCHANGED <<expected, last, bridge, rt, facade, repo>>

NextAuth ==
    \/ \E t \in Tasks : LoginStart(t)
    \/ \E t \in Tasks : LogoutStart(t)
    \/ \E t \in Tasks : Serve(t)
    \/ \E t \in Tasks : Resume(t)

SpecAuth == InitAuth /\ [][NextAuth]_vars

----------------------------------------------------------------------------
(* The facade against a consistent backend: a table that keeps what is    *)
(* inserted, answers a select with the rows its filters match and a       *)
(* delete with the rows it removed                                        *)

\* the rows of the table are known by their id
RowIds == 1..(MaxRows + 1)
Columns == {"*", "id", "name", "full_name", "is_active"}

\* a row against one builder call; the scenario filters with eq on id
Matches(id, f) == f.prim = "eq" /\ f.col = "id" /\ f.val = id
Matching(db, filters) == {id \in db : \A i \in 1..Len(filters) : Matches(id, filters[i])}

\* the ids of a set of rows in ascending order
RECURSIVE Ascending(_)
Ascending(ids) ==
    IF ids = {} THEN <<>>
    ELSE LET least == CHOOSE i \in ids : \A j \in ids : i <= j
         IN <<least>> \o Ascending(ids \ {least})

\* the table's answer to a statement and the table afterwards; a select
\* that names a column the table does not have is refused
Answer(db, stmt) ==
    IF stmt.verb \in {"insert", "upsert"}
    THEN LET new == CHOOSE i \in RowIds \ db : \A j \in RowIds \ db : i <= j
         IN [resp |-> [kind |-> "data", data |-> <<new>>], db |-> db \cup {new}]
    ELSE IF stmt.verb = "select"
    THEN (IF \E i \in 1..Len(stmt.cols) : stmt.cols[i] \notin Columns
          THEN [resp |-> [kind |-> "raise", data |-> <<>>], db |-> db]
          ELSE [resp |-> [kind |-> "data", data |-> Ascending(Matching(db, stmt.filters))],
                db |-> db])
    ELSE [resp |-> [kind |-> "data", data |-> Ascending(Matching(db, stmt.filters))],
          db |-> db \ Matching(db, stmt.filters)]

\* the three handlers of the scenario, by name, on a given backend answer
Handler(op, table_name, fields, payload, upsert, where_filters, backend) ==
    CASE op = "insert" -> insert_into_table(table_name, payload, upsert, backend)
      [] op = "select" -> select_from_table(table_name, fields, where_filters, backend)
      [] op = "delete" -> delete_from_table(table_name, where_filters, backend)

\* a handler run against the table: the statement it sends is answered by
\* the table; a handler that sends nothing leaves the table alone
OnTable(db, op, fields, payload, upsert, where_filters) ==
    LET sent == Handler(op, "experts", fields, payload, upsert, where_filters, Unused)
        ans == Answer(db, sent.stmt)
    IN IF sent.executed = 0
       THEN [r |-> sent, db |-> db]
       ELSE [r |-> Handler(op, "experts", fields, payload, upsert, where_filters, ans.resp),
             db |-> ans.db]

\* the predicate (id, eq, X) on the identifier the insert returned
ById(id) == <<Pred("id", "eq", id)>>

InitRT ==
    /\ session = SessionUnset
    /\ expected = SessionNone
    /\ last = NoCall
    /\ today = 1
    /\ logger = NewLogger(1)
    /\ bridge = NoBridge
    /\ facade = ReadyFacade
    /\ auth = NoAuth
    /\ repo = NoRepo
    /\ \E db \in SUBSET (1..MaxRows), fields \in FieldInputs, payload \in Payloads,
          upsert \in BOOLEAN :
        rt = [NoRT EXCEPT !.pc = "start", !.db = db, !.fields = fields,
                          !.payload = payload, !.upsert = upsert]

\* one step of the scenario: the call, its record and log, the table afterwards
Step(base, run, next) ==
    /\ last' = Call(base, run.r)
    /\ rt' = [next EXCEPT !.db = run.db]
    /\ Logged
    /\ UNCHANGED <<session, expected, bridge, facade, auth, repo>>

RTInsert ==
    /\ rt.pc = "start"
    /\ LET run == OnTable(rt.db, "insert", rt.fields, rt.payload, rt.upsert, <<>>)
       IN Step([NoCall EXCEPT !.op = "insert", !.table = "experts",
                              !.payload = rt.payload, !.upsert = rt.upsert],
               run,
               [rt EXCEPT !.pc = "inserted", !.inserted = run.r.out,
                          !.id = IF run.r.out.rtype = "row" THEN run.r.out.data[1] ELSE 0])

RTSelect ==
    /\ rt.pc = "inserted"
    /\ LET run == OnTable(rt.db, "select", rt.fields, rt.payload, rt.upsert, ById(rt.id))
       IN Step([NoCall EXCEPT !.op = "select", !.table = "experts",
                              !.fields = rt.fields, !.filters = ById(rt.id)],
               run, [rt EXCEPT !.pc = "selected", !.selected = run.r.out])

RTDelete ==
    /\ rt.pc = "selected"
    /\ LET run == OnTable(rt.db, "delete", rt.fields, rt.payload, rt.upsert, ById(rt.id))
       IN Step([NoCall EXCEPT !.op = "delete", !.table = "experts", !.filters = ById(rt.id)],
               run, [rt EXCEPT !.pc = "deleted", !.deleted = run.r.out])

RTReselect ==
    /\ rt.pc = "deleted"
    /\ LET run == OnTable(rt.db, "select", rt.fields, rt.payload, rt.upsert, ById(rt.id))
       IN Step([NoCall EXCEPT !.op = "select", !.table = "experts",
                              !.fields = rt.fields, !.filters = ById(rt.id)],
               run, [rt EXCEPT !.pc = "done", !.reselected = run.r.out])

NextRT ==
    \/ RTInsert
    \/ RTSelect
    \/ RTDelete
    \/ RTReselect

SpecRT == InitRT /\ [][NextRT]_vars

----------------------------------------------------------------------------
(* Repositories over the facade: src/src/db/base_db.py, experts.py,       *)
(* uni_document_types.py.  A repository method is a coroutine: it runs up *)
(* to a facade call that reaches the backend, the backend table answers,  *)
(* and the coroutine goes on; a facade call that raises before it sends   *)
(* anything does not suspend it.                                          *)

RecordNotFoundError(msg) == Exc("base_db.RecordNotFoundError", msg, NoExc)
ValidationError(msg) == Exc("base_db.ValidationError", msg, NoExc)
DatabaseError(msg, cause) == Exc("base_db.DatabaseError", msg, cause)

\* "await super().update(...)" inside a nested function without parameters
SuperNoArguments == Exc("RuntimeError", <<"super(): no arguments">>, NoExc)

\* _handle_db_operation: "except DatabaseError: raise", "except Exception
\* as e: raise DatabaseError(f"Operation {operation_name} failed") from e"
handle_db_operation(operation_name, out) ==
    IF out.kind # "raise" THEN out
    ELSE IF IsInstance(out.exc.type, "base_db.DatabaseError") THEN out
    ELSE Raise(DatabaseError(<<"Operation ", operation_name, " failed">>, out.exc))

RepoTables == {"experts", "uni_document_types"}

\* the column a repository looks its records up by
NameColumn(table) == IF table = "experts" THEN "expert_name" ELSE "document_type"

Names == {"ann", "bob"}
NameInputs == Names \cup {""}
IdInputs == RowIds \cup {0}

\* a row of either table: its id, its name column and one further column
Row(id, name, full_name) == [id |-> id, name |-> name, full_name |-> full_name]

\* the tables the backend holds when the repositories are created: no row,
\* or rows with distinct ids and distinct names
SeedTables == {{}, {Row(1, "ann", "Ann")}, {Row(1, "ann", "Ann"), Row(2, "bob", "Bob")}}

\* field selectors the repositories pass
BASE_FIELDS == [kind |-> "list", items |-> <<"id", "created_at", "updated_at", "is_active">>]
IdFields == [kind |-> "list", items |-> <<"id">>]
ExpertNameFields ==
    [kind |-> "list", items |-> <<"id", "expert_name", "full_name", "starting_ref_id">>]
DocumentNameFields ==
    [kind |-> "list",
     items |-> <<"id", "document_type", "description", "mime_type", "file_extension",
                 "category", "is_ai_generated">>]

\* data[key], or a default for a key the dict does not have
PayloadValue(payload, key, default) ==
    IF \E i \in 1..Len(payload) : payload[i].key = key
    THEN payload[CHOOSE i \in 1..Len(payload) : payload[i].key = key].val
    ELSE default

\* a row against one builder call
RowMatches(table, row, f) ==
    /\ f.prim = "eq"
    /\ \/ (f.col = "id" /\ f.val = row.id)
       \/ (f.col = NameColumn(table) /\ f.val = row.name)
RowsMatching(table, rows, filters) ==
    {row \in rows : \A i \in 1..Len(filters) : RowMatches(table, row, filters[i])}
IdsOf(rows) == {row.id : row \in rows}

\* the table's answer to a statement and the table afterwards; rows are
\* answered by their ids in ascending order
TableAnswer(rows, stmt) ==
    LET hit == RowsMatching(stmt.table, rows, stmt.filters)
        free == RowIds \ IdsOf(rows)
    IN IF stmt.verb = "insert"
       THEN (IF free = {} THEN [resp |-> [kind |-> "raise", data |-> <<>>], rows |-> rows]
             ELSE LET new == CHOOSE i \in free : \A j \in free : i <= j
                  IN [resp |-> [kind |-> "data", data |-> <<new>>],
                      rows |-> rows \cup
                          {Row(new, PayloadValue(stmt.payload, NameColumn(stmt.table), ""),
                               PayloadValue(stmt.payload, "full_name", ""))}])
       ELSE IF stmt.verb = "update"
       THEN [resp |-> [kind |-> "data", data |-> Ascending(IdsOf(hit))],
             rows |-> (rows \ hit) \cup
                 {[row EXCEPT !.full_name =
                       PayloadValue(stmt.payload, "full_name", row.full_name)] : row \in hit}]
       ELSE [resp |-> [kind |-> "data", data |-> Ascending(IdsOf(hit))], rows |-> rows]

\* one call of a facade method by a repository
FacadeCall(op, table, fields, payload, filters) ==
    [op |-> op, table |-> table, fields |-> fields, payload |-> payload, filters |-> filters]
NoFacadeCall == FacadeCall("none", "", Star, <<>>, <<>>)
RunFacade(call, backend) ==
    CASE call.op = "select" ->
            select_from_table(call.table, call.fields, call.filters, backend)
      [] call.op = "insert" -> insert_into_table(call.table, call.payload, FALSE, backend)
      [] call.op = "update" ->
            update_table(call.table, call.payload, call.filters, backend)

\* the repository methods modelled, and the name each gives _handle_db_operation
RepoOps ==
    {"Experts.add", "Experts.get_by_id", "Experts.get_by_name", "Experts.update",
     "DocumentTypes.add", "DocumentTypes.get_by_id", "DocumentTypes.get_by_name"}
TableOf(op) ==
    IF op \in {"Experts.add", "Experts.get_by_id", "Experts.get_by_name", "Experts.update"}
    THEN "experts" ELSE "uni_document_types"
OperationName(op) ==
    CASE op = "Experts.add" -> "add expert"
      [] op = "Experts.get_by_id" -> "get_by_id"
      [] op = "Experts.get_by_name" -> "get expert by name"
      [] op = "Experts.update" -> "update expert"
      [] op = "DocumentTypes.add" -> "add_document_type"
      [] op = "DocumentTypes.get_by_id" -> "get_by_id"
      [] op = "DocumentTypes.get_by_name" -> "get_by_name"
NotFoundMessage(op) ==
    CASE op = "Experts.get_by_name" -> <<"Expert not found">>
      [] op = "DocumentTypes.get_by_id" -> <<"Document type not found">>
      [] op = "DocumentTypes.get_by_name" ->
            <<"Document type not found or policy prevented read">>
      [] OTHER -> <<"Record not found">>

\* a call of a repository method: its arguments, where it stands, the facade
\* call it is suspended in, and how it ended
NoTask ==
    [pc |-> "idle", op |-> "none", id |-> 0, name |-> "", data |-> <<>>,
     step |-> "", call |-> NoFacadeCall, out |-> NoOut]
Finish(out) == [pc |-> "done", step |-> "", call |-> NoFacadeCall, out |-> out]
Suspend(step, call) == [pc |-> "await", step |-> step, call |-> call, out |-> NoOut]

\* "if not result: raise RecordNotFoundError(...)", "return result[0]"
FirstOrNotFound(out, msg) ==
    IF out.kind = "raise" THEN out
    ELSE IF out.rtype = "None" \/ Len(out.data) = 0 THEN Raise(RecordNotFoundError(msg))
    ELSE ReturnRow(out.data[1])

\* "if not result: raise DatabaseError(...)", "return result" after an insert
InsertedOrError(out, msg) ==
    IF out.kind = "raise" THEN out
    ELSE IF out.rtype = "None" THEN Raise(DatabaseError(msg, NoExc))
    ELSE out

\* BaseDB.get_by_id's facade call
GetByIdCall(table, id) == FacadeCall("select", table, BASE_FIELDS, <<>>, ById(id))

\* the dict Experts.add and DocumentTypes.add build from their arguments
AddData(table, name) ==
    IF table = "experts"
    THEN <<Entry("expert_name", "str", name), Entry("full_name", "str", "Ann"),
           Entry("email_address", "NoneType", "None")>>
    ELSE <<Entry("document_type", "str", name), Entry("is_ai_generated", "bool", "False")>>

RECURSIVE After(_, _, _)

\* "await self.supabase.<method>(...)": the coroutine is suspended only if
\* the facade method gets as far as its execute()
Await(task, step, call) ==
    IF RunFacade(call, Unused).executed = 0
    THEN After(task, step, RunFacade(call, Unused).out)
    ELSE Suspend(step, call)

\* the rest of a repository method once its facade call has ended with out
After(task, step, out) ==
    LET table == TableOf(task.op)
        name == OperationName(task.op)
    IN CASE task.op = "Experts.add" /\ step = "check" ->
              IF out.kind = "raise" THEN Finish(handle_db_operation(name, out))
              ELSE IF out.rtype = "list" /\ Len(out.data) > 0
              THEN Await(task, "get", GetByIdCall(table, out.data[1]))
              ELSE Await(task, "insert", FacadeCall("insert", table, Star, task.data, <<>>))
         [] task.op = "Experts.add" /\ step = "get" ->
              Finish(handle_db_operation(name,
                         handle_db_operation("get_by_id",
                             FirstOrNotFound(out, <<"Record not found">>))))
         [] task.op = "Experts.add" /\ step = "insert" ->
              Finish(handle_db_operation(name, InsertedOrError(out, <<"Failed to add expert">>)))
         [] task.op = "DocumentTypes.add" /\ step = "check" ->
              IF out.kind = "raise" THEN Finish(handle_db_operation(name, out))
              ELSE IF out.rtype = "list" /\ Len(out.data) > 0
              THEN Finish(ReturnRow(out.data[1]))
              ELSE Await(task, "insert", FacadeCall("insert", table, Star, task.data, <<>>))
         [] task.op = "DocumentTypes.add" /\ step = "insert" ->
              Finish(handle_db_operation(name,
                         InsertedOrError(out, <<"Failed to add document type">>)))
         [] OTHER ->
              Finish(handle_db_operation(name, FirstOrNotFound(out, NotFoundMessage(task.op))))

\* a repository method from its first line to its first facade call
Begin(task) ==
    LET table == TableOf(task.op)
        by_name == <<Pred(NameColumn(table), "eq", task.name)>>
    IN CASE task.op \in {"Experts.add", "DocumentTypes.add"} ->
              IF task.name = ""
              THEN Finish(Raise(ValidationError(<<"required parameter">>)))
              ELSE Await(task, "check", FacadeCall("select", table, IdFields, <<>>, by_name))
         [] task.op = "Experts.get_by_id" -> Await(task, "select", GetByIdCall(table, task.id))
         [] task.op = "Experts.get_by_name" ->
              IF task.name = ""
              THEN Finish(Raise(ValidationError(<<"expert_name is required">>)))
              ELSE Await(task, "select",
                         FacadeCall("select", table, ExpertNameFields, <<>>, by_name))
         [] task.op = "Experts.update" ->
              Finish(handle_db_operation(OperationName(task.op), Raise(SuperNoArguments)))
         [] task.op = "DocumentTypes.get_by_id" ->
              IF task.id = 0
              THEN Finish(Raise(ValidationError(<<"document_type_id is required parameter">>)))
              ELSE Await(task, "select", FacadeCall("select", table, Star, <<>>, ById(task.id)))
         [] task.op = "DocumentTypes.get_by_name" ->
              IF task.name = ""
              THEN Finish(Raise(ValidationError(<<"document_type is required parameter">>)))
              ELSE Await(task, "select",
                         FacadeCall("select", table, DocumentNameFields, <<>>, by_name))

\* the task record after a stretch of its coroutine has run
Moved(task, to) ==
    [task EXCEPT !.pc = to.pc, !.step = to.step, !.call = to.call, !.out = to.out]

\* the methods looked up by id, by name, and the change set update is given
ByIdOps == {"Experts.get_by_id", "Experts.update", "DocumentTypes.get_by_id"}
UpdateData == <<Entry("full_name", "str", "New")>>

InitRepo ==
    /\ session = SessionUnset
    /\ expected = SessionNone
    /\ last = NoCall
    /\ today = 1
    /\ logger = NewLogger(1)
    /\ bridge = NoBridge
    /\ rt = NoRT
    /\ facade = ReadyFacade
    /\ auth = NoAuth
    /\ \E db \in [RepoTables -> SeedTables] :
        repo = [db |-> db, task |-> [t \in Tasks |-> NoTask]]

\* a repository method is called and runs up to its first suspension
RepoCall(t) ==
    /\ repo.task[t].pc = "idle"
    /\ \E op \in RepoOps, id \in IdInputs, name \in NameInputs :
        /\ IF op \in ByIdOps THEN name = "" ELSE id = 0
        /\ LET task == [NoTask EXCEPT !.op = op, !.id = id, !.name = name,
                                      !.data = IF op = "Experts.update" THEN UpdateData
                                               ELSE IF op \in ByIdOps THEN <<>>
                                               ELSE AddData(TableOf(op), name)]
           IN repo' = [repo EXCEPT !.task[t] = Moved(task, Begin(task))]
    /\ Logged
    /\ UNCHANGED <<session, expected, last, bridge, rt, facade, auth>>

\* the backend answers the statement a coroutine is suspended on, and the
\* coroutine runs up to its next suspension
RepoResume(t) ==
    /\ repo.task[t].pc = "await"
    /\ LET task == repo.task[t]
           ans == TableAnswer(repo.db[task.call.table], RunFacade(task.call, Unused).stmt)
           r == RunFacade(task.call, ans.resp)
       IN repo' = [repo EXCEPT !.db[task.call.table] = ans.rows,
                               !.task[t] = Moved(task, After(task, task.step, r.out))]
    /\ Logged
    /\ UNCHANGED <<session, expected, last, bridge, rt, facade, auth>>

NextRepo ==
    \/ \E t \in Tasks : RepoCall(t)
    \/ \E t \in Tasks : RepoResume(t)

SpecRepo == InitRepo /\ [][NextRepo]_vars

----------------------------------------------------------------------------
(* Properties *)

FilterOps(call) == {call.filters[i].op : i \in 1..Len(call.filters)}
WellFormed(call) == \A i \in 1..Len(call.filters) : call.filters[i].arity = 3
IsFilterCall(call) == call.op \in {"select", "update", "delete"}

\* the operator set of the interface description, and the one backend
\* primitive each of them stands for
StatedOperators == InputOperators \ {"bogus"}
StatedPrimitive(op) ==
    CASE op = "is" -> "is_"
      [] op = "in" -> "in_"
      [] OTHER -> op

\* the statement carries exactly the call's predicates, in list order, each
\* as one call of its primitive with the predicate's column and value
CarriesAllFilters(call) ==
    /\ Len(call.stmt.filters) = Len(call.filters)
    /\ \A i \in 1..Len(call.filters) :
        call.stmt.filters[i] =
            [prim |-> StatedPrimitive(call.filters[i].op),
             col |-> call.filters[i].col, val |-> call.filters[i].val]

\* C1: select, update and delete, given a predicate whose operator is
\* outside the allow-list, raise a ValidationError naming that operator and
\* issue no execute at any point of the call.
C1_UnsupportedOperatorFailsFast ==
    (IsFilterCall(last) /\ last.table = "experts" /\ last.fields.kind \in {"str", "dict"}
        /\ WellFormed(last) /\ ~(FilterOps(last) \subseteq StatedOperators))
    => /\ last.out.kind = "raise"
       /\ last.out.exc.type = "ValidationError"
       /\ \E op \in FilterOps(last) \ StatedOperators :
            last.out.exc.msg = <<"Unsupported operator: ", op>>
       /\ last.executed = 0

\* C2: each of the 19 stated operators is accepted in a predicate by select,
\* update and delete, and each accepted predicate becomes exactly one call of
\* that operator's backend primitive with the predicate's column and value.
\* (Stated for select with a dict of columns, the selector whose predicates
\* the handler compiles, and for update and delete.)
C2_EveryStatedOperatorAccepted ==
    (IsFilterCall(last) /\ last.table = "experts" /\ last.fields.kind = "dict"
        /\ WellFormed(last) /\ FilterOps(last) \subseteq StatedOperators)
    => /\ last.executed = 1
       /\ CarriesAllFilters(last)

\* C3: the statement select executes carries every predicate of the given
\* list, in list order, whatever the field selector: the "all columns"
\* sentinel as well as explicit columns.
C3_SelectCarriesEveryPredicate ==
    (last.op = "select" /\ last.executed = 1) => CarriesAllFilters(last)

\* C4: a select whose field selector is a non-empty list of column names
\* passes input validation and reaches the backend with exactly those
\* columns in the given order.
C4_SelectAcceptsColumnList ==
    (last.op = "select" /\ last.table = "experts" /\ last.fields.kind = "list"
        /\ last.fields.items # <<>> /\ WellFormed(last)
        /\ FilterOps(last) \subseteq ALLOWED_OPERATORS)
    => /\ last.executed = 1
       /\ last.stmt.cols = last.fields.items

C6_LoginSetsSession ==
    [][(last'.op = "login" /\ last'.email # "" /\ last'.password # "")
        => /\ (ValidCredentials(last'.email, last'.password) /\ last'.backend.kind = "auth")
                => /\ last'.out = ReturnBool(TRUE)
                   /\ session' = last'.backend.data[1]
                   /\ session' \notin {SessionNone, SessionUnset}
           /\ ~ValidCredentials(last'.email, last'.password)
                => /\ last'.out.kind = "raise"
                   /\ last'.out.exc.type = "SupabaseAuthenticationError"
                   /\ session' = session]_vars

C6_Witness ==
    /\ last.op = "login"
    /\ ValidCredentials(last.email, last.password)
    /\ last.out = ReturnBool(TRUE)
    /\ session \in SessionTokens
    /\ session = last.backend.data[1]

\* C7: every login that does not succeed (bad or missing credentials, a
\* backend exception, an answer without a user) raises an authentication
\* error; it never returns a falsy value and raises nothing of another kind.
C7_LoginFailureIsAuthenticationError ==
    last.op = "login"
    => \/ last.backend.kind = "auth" /\ last.out = ReturnBool(TRUE)
       \/ /\ last.out.kind = "raise"
          /\ IsInstance(last.out.exc.type, "SupabaseAuthenticationError")

\* C8: at every point the session attribute is the session of the most
\* recent successful login if no successful logout followed it, and null
\* otherwise, also before the first login.
C8_SessionFollowsLoginLogout ==
    session = expected

\* C9: after a successful refresh_session (or set_session) following a login
\* the session attribute is the session of the refresh, not the one the
\* login stored.
C9_RefreshReplacesSession ==
    (last.op \in {"refresh_session", "set_session"} /\ last.out.kind = "return"
        /\ expected \in SessionTokens)
    => session = last.backend.data[1]

\* C10: delete returns false without raising when its predicates match no
\* row, and returns true only when the response carries at least one row.
C10_DeleteFlagFollowsRows ==
    (last.op = "delete" /\ last.filters # <<>> /\ last.executed = 1
        /\ last.backend.kind = "data")
    => /\ last.out.kind = "return"
       /\ last.out.flag = (Len(last.backend.data) > 0)

\* the classes the service modules call typed exceptions: the hierarchy of
\* exceptions.py and the one of base_service.py
IsTyped(e) ==
    \/ IsInstance(e.type, "ApplicationError")
    \/ IsInstance(e.type, "base_service.ServiceError")

\* C12: no double-wrapping.  A typed exception raised inside a facade
\* operation (login's authentication error for an answer without a user,
\* upload_file's storage error for an invalid answer) or handed to the
\* classifier reaches the caller as that same exception, not wrapped in a
\* new one.
C12_NoDoubleWrapping ==
    /\ (last.op = "login" /\ last.executed = 1 /\ last.backend.kind \in {"none", "nouser"})
        => last.out = Raise(Exc("SupabaseAuthenticationError",
                                <<"Login failed - invalid credentials">>, NoExc))
    /\ (last.op = "upload_file" /\ last.executed = 1
            /\ last.backend.kind \in {"none", "nokey"})
        => last.out = Raise(Exc("SupabaseStorageError",
                                <<"Invalid response from storage upload">>, NoExc))
    /\ (last.op = "handle_error" /\ IsTyped(last.arg))
        => /\ last.out.kind = "return"
           /\ last.out.exc = last.arg

\* the low-level exception a call met: the one the backend raised, or the
\* one handed to a classifier
LowLevel(call) ==
    IF call.op \in {"map_storage_error", "handle_error"} THEN call.arg
    ELSE IF call.op = "upload_file"
    THEN (IF call.backend.kind = "raise_storage"
          THEN StorageApiError(<<"quota">>) ELSE TransportError)
    ELSE IF call.op \in {"login", "logout", "refresh_session", "set_session"}
    THEN BackendExc(call.backend)
    ELSE TransportError
MetLowLevel(call) ==
    \/ call.op = "map_storage_error"
    \/ call.op = "handle_error" /\ ~IsTyped(call.arg)
    \/ /\ call.op \in {"select", "insert", "update", "delete", "upload_file",
                       "login", "logout", "refresh_session", "set_session"}
       /\ call.backend.kind \in {"raise", "reject", "raise_storage"}

\* C13: whenever map_storage_error, handle_error or a facade except-handler
\* turns a low-level exception into the exception the caller gets, that
\* exception carries the low-level one as its original error.
C13_OriginalErrorRetained ==
    MetLowLevel(last) => last.out.exc.orig = LowLevel(last)

StorageKeywords == <<"authentication", "permission", "quota", "not found", "validation">>
StorageKinds ==
    <<"SupabaseStorageAuthError", "SupabaseStoragePermissionError",
      "SupabaseStorageQuotaError", "SupabaseStorageNotFoundError",
      "SupabaseStorageValidationError">>
Occurs(keyword, msg) ==
    IF keyword = "not found"
    THEN HasNotFound(LowerMessage(msg))
    ELSE HasWord(LowerMessage(msg), keyword)
FirstKeyword(msg) ==
    LET hits == {i \in 1..Len(StorageKeywords) : Occurs(StorageKeywords[i], msg)}
    IN IF hits = {} THEN 0 ELSE CHOOSE i \in hits : \A j \in hits : i <= j

\* C14: map_storage_error returns, for every message, the storage exception
\* of the earliest keyword (authentication, permission, quota, not found,
\* validation) that occurs in the message whatever its case, and the generic
\* storage error when none occurs.
C14_FirstKeywordDecides ==
    last.op = "map_storage_error"
    => /\ last.out.kind = "return"
       /\ last.out.exc.type =
            (IF FirstKeyword(last.arg.msg) = 0
             THEN "SupabaseStorageError"
             ELSE StorageKinds[FirstKeyword(last.arg.msg)])

C14_Witness ==
    /\ last.op = "map_storage_error"
    /\ last.arg.msg = <<"quota", "Authentication">>
    /\ last.out.exc.type = "SupabaseStorageAuthError"

\* C15: for an API error whose details carry a Postgres code the classifier
\* returns one typed exception: DuplicateError for 23505, ValidationError
\* for 23503, 23502 and 22P02, DatabaseError for 42P01 and any other code.
C15_CodeTable ==
    (last.op = "handle_error" /\ last.arg.type = "APIError" /\ last.arg.details.hasCode)
    => /\ last.out.kind = "return"
       /\ last.out.exc.type =
            (CASE last.arg.details.code = "23505" -> "base_service.DuplicateError"
               [] last.arg.details.code \in {"23503", "23502", "22P02"}
                    -> "base_service.ValidationError"
               [] OTHER -> "base_service.DatabaseError")

\* the operations of the facade that carry the log_method decorator
WrappedOps ==
    {"select", "insert", "update", "delete", "login", "logout",
     "refresh_session", "set_session", "upload_file"}
IsExitRecord(rec) == rec.text = "args kwargs duration" /\ rec.outcome \in {"ERROR", "result"}
IsEntryRecord(rec) == rec.text = "args kwargs"

\* C19: every call of a wrapped operation writes a record with the method
\* name and the arguments before the operation runs and a record with the
\* duration and the result or the exception after it; the entry record of a
\* method precedes its exit record.
C19_EntryRecordBeforeExitRecord ==
    last.op \in WrappedOps
    => \E j \in 1..Len(last.log) :
          /\ IsExitRecord(last.log[j])
          /\ (last.log[j].outcome = "ERROR") = (last.out.kind = "raise")
          /\ \E i \in 1..(j - 1) :
                /\ IsEntryRecord(last.log[i])
                /\ last.log[i].method = last.log[j].method

\* C20: the logger has exactly one file handler, the one for the date of
\* the most recent log call; every record is written to the file of the
\* date of its own log call and to no other file.
C20_OneFileForTheDateOfTheLogCall ==
    /\ FileHandlers(logger) = <<logger.current_date>>
    /\ \A i \in 1..Len(last.log) : last.log[i].files = <<last.log[i].at>>
    /\ last.log # <<>>
        => /\ last.log[Len(last.log)].at = today
           /\ FileHandlers(logger) = <<today>>

C20_Witness ==
    /\ last.op = "insert"
    /\ today > 1
    /\ Len(last.log) = 2
    /\ last.log[1].text = "Log file created"
    /\ last.log[2].files = <<today>>
    /\ logger.handlers = <<Console, today>>

\* C16: a blocking twin returns what its async operation returns, or raises
\* what it raises, for the same input and backend answer, in every context
\* of the calling thread: no loop, a loop that is not running, a running
\* loop.
C16_ContextIndependence ==
    bridge.pc = "returned"
    => /\ last.op = SyncName(bridge.pending.op)
       /\ last.out = run_async(bridge.pending, session).out
       /\ last.stmt = run_async(bridge.pending, session).stmt

C16_Witness ==
    /\ bridge.pc = "returned"
    /\ bridge.ctx = "running"
    /\ last.op = "login_sync"
    /\ last.out = ReturnBool(TRUE)
    /\ session = bridge.pending.backend.data[1]

\* C17: a twin called on a running loop runs the operation on one worker
\* thread with a loop of its own; the calling thread creates and runs no
\* loop, returns only after the worker finished, and the worker thread has
\* ended by then.
C17_OneWorkerJoinedBeforeReturn ==
    (bridge.ctx = "running" /\ bridge.pc # "idle")
    => /\ bridge.workers <= 1
       /\ bridge.worker_loops <= 1
       /\ bridge.caller_loops = 0
       /\ bridge.caller_runs = 0
       /\ bridge.pc \in {"return", "returned"}
            => /\ bridge.workers = 1
               /\ bridge.worker_loops = 1
               /\ bridge.ran_on = "worker"
               /\ bridge.future.state = "finished"
               /\ bridge.worker = "joined"

C17_Witness ==
    /\ bridge.pc = "returned"
    /\ bridge.ctx = "running"
    /\ bridge.worker = "joined"
    /\ last.op = "insert_into_table_sync"
    /\ last.executed = 1

\* C18: when the operation raises on the worker thread, the blocking call
\* raises that exception, with the same kind, message and original error.
C18_SameExceptionAcrossThreads ==
    (bridge.ran_on = "worker" /\ bridge.done.out.kind = "raise")
    => /\ bridge.pc \in {"shutdown", "return", "returned"} => bridge.result = bridge.done.out
       /\ bridge.pc = "returned" => last.out = bridge.done.out

C18_Witness ==
    /\ bridge.pc = "returned"
    /\ bridge.ran_on = "worker"
    /\ last.op = "insert_into_table_sync"
    /\ last.out = Raise(Exc("SupabaseQueryError", <<"Failed to insert into table">>,
                            TransportError))

\* C11: against a consistent backend an insert returns a row with an
\* identifier X; the select by (id, eq, X) returns exactly that one row, the
\* delete by the same predicate returns true, and the select after it
\* returns the empty list.
C11_RoundTrip ==
    /\ rt.pc \notin {"none", "start"}
        => /\ rt.inserted.kind = "return"
           /\ rt.inserted.rtype = "row"
           /\ rt.id \in RowIds
    /\ rt.pc \in {"selected", "deleted", "done"} => rt.selected = ReturnList(<<rt.id>>)
    /\ rt.pc \in {"deleted", "done"} => rt.deleted = ReturnBool(TRUE)
    /\ rt.pc = "done" => rt.reselected = ReturnList(<<>>)

\* C23: the change set update sends has the caller's keys in the caller's
\* order; a boolean value goes as the text "true" or "false", any other
\* value as it is; update returns the first row of the response, None when
\* the response has no rows.
C23_UpdateSerializesBooleans ==
    (last.op = "update" /\ last.executed = 1)
    => /\ Len(last.stmt.payload) = Len(last.payload)
       /\ \A i \in 1..Len(last.payload) :
            /\ last.stmt.payload[i].key = last.payload[i].key
            /\ last.payload[i].type = "bool"
                => /\ last.stmt.payload[i].type = "str"
                   /\ last.stmt.payload[i].val =
                        (IF last.payload[i].val = "True" THEN "true" ELSE "false")
            /\ last.payload[i].type # "bool" => last.stmt.payload[i] = last.payload[i]
       /\ last.backend.kind = "data"
            => last.out = (IF Len(last.backend.data) > 0
                           THEN ReturnRow(last.backend.data[1]) ELSE ReturnNone)

C23_Witness ==
    /\ last.op = "update"
    /\ last.executed = 1
    /\ Len(last.payload) = 2
    /\ last.payload[1].type = "bool"
    /\ last.stmt.payload[1].val = "false"
    /\ last.stmt.payload[2].val = "True"
    /\ last.out = ReturnNone

\* C28: an auth call that raises leaves the session attribute as it was: a
\* failing login keeps the session of an earlier login, a logout whose
\* sign-out raises does not clear it.
C28_FailingAuthKeepsSession ==
    [][(last.op = "none" /\ last'.op \in {"login", "logout"} /\ last'.out.kind = "raise")
        => session' = session]_vars

C28_Witness ==
    /\ last.op = "logout"
    /\ last.out.kind = "raise"
    /\ session \in SessionTokens

\* C30: delete_from_table called with an empty filter list sends no delete
\* statement without a row filter.
C30_NoUnfilteredDelete ==
    (last.op = "delete" /\ last.executed = 1) => last.stmt.filters # <<>>

\* the operations of the facade that await the backend
BackendOps ==
    {"select", "insert", "update", "delete", "login", "logout", "refresh_session",
     "set_session", "upload_file", "get_user", "cleanup", "create_search_index"}

\* C22: whenever the backend call of a facade operation raises, the
\* operation ends by raising a typed exception; it does not return a value.
C22_NoBackendFailureSwallowed ==
    (last.op \in BackendOps /\ last.backend.kind \in {"raise", "reject", "raise_storage"})
    => /\ last.out.kind = "raise"
       /\ IsTyped(last.out.exc)

\* C21: a constructor call with an empty or missing url or api_key ends in
\* SupabaseError without one call of the client constructor; a failure of
\* the client constructor ends in SupabaseConnectionError carrying the
\* original exception; and an operation is only ever served by a facade
\* whose client exists.
C21_ConstructionFailsFast ==
    /\ (facade.state # "none" /\ (Falsy(facade.given[1]) \/ Falsy(facade.given[2])))
       => /\ facade.state = "failed"
          /\ facade.out = Raise(Exc("SupabaseError", <<"URL and API key are required">>, NoExc))
          /\ facade.builds = 0
          /\ ~facade.client
    /\ (facade.builds > 0 /\ ~facade.client)
       => /\ facade.state = "failed"
          /\ facade.out.kind = "raise"
          /\ facade.out.exc.type = "SupabaseConnectionError"
          /\ facade.out.exc.orig = BuildError
    /\ last.op # "none" => (facade.state = "ready" /\ facade.client)

C21_Witness ==
    /\ facade.state = "failed"
    /\ facade.given = <<"valid", "">>
    /\ facade.builds = 0

\* C27: when every login and logout of a concurrent run has completed, the
\* session attribute holds a session exactly if the backend is signed in.
C27_SessionAgreesWithBackend ==
    (\A t \in Tasks : auth.pc[t] = "done")
    => (session \in SessionTokens <=> auth.backend \in SessionTokens)

RepoDone(t) == repo.task[t].pc = "done"
LookupOps ==
    {"Experts.get_by_id", "Experts.get_by_name", "DocumentTypes.get_by_id",
     "DocumentTypes.get_by_name"}

\* the rows of the method's table that the looked-up id or name matches
Sought(task) ==
    {row \in repo.db[TableOf(task.op)] :
        IF task.op \in ByIdOps THEN row.id = task.id ELSE row.name = task.name}

\* C24: a single-record lookup (get_by_id, get_by_name) whose id or name
\* matches no row ends by raising RecordNotFoundError: it returns nothing,
\* and the error handler does not replace the not-found error by a generic
\* DatabaseError.
C24_LookupMissRaisesNotFound ==
    \A t \in Tasks :
        (/\ RepoDone(t)
         /\ repo.task[t].op \in LookupOps
         /\ repo.task[t].id # 0 \/ repo.task[t].name # ""
         /\ Sought(repo.task[t]) = {})
        => /\ repo.task[t].out.kind = "raise"
           /\ repo.task[t].out.exc.type = "base_db.RecordNotFoundError"

\* C25: Experts.update on an existing expert with a change set that has no
\* expert_name returns the updated row, and the row holds the new value of
\* every changed field.
C25_PartialUpdateSucceeds ==
    \A t \in Tasks :
        (/\ RepoDone(t)
         /\ repo.task[t].op = "Experts.update"
         /\ Sought(repo.task[t]) # {})
        => /\ repo.task[t].out = ReturnRow(repo.task[t].id)
           /\ \A row \in Sought(repo.task[t]) :
                  row.full_name = PayloadValue(repo.task[t].data, "full_name", "")

C29_AddIsIdempotent ==
    \A t \in Tasks :
        (/\ \A u \in Tasks : RepoDone(u)
         /\ repo.task[t].op = "Experts.add"
         /\ repo.task[t].name # "")
        => /\ Cardinality(Sought(repo.task[t])) = 1
           /\ \A row \in Sought(repo.task[t]) : repo.task[t].out = ReturnRow(row.id)

====
